---- MODULE Spec2Model ----
(***************************************************************************)
(* A model of quilt's PackageStore (compiler/quilt/tools/store.py): the    *)
(* on-disk layout of a package store, the format migrations run by the     *)
(* constructor, the package registry operations and the mark-and-sweep     *)
(* prune of the object store.                                              *)
(*                                                                         *)
(* A store on disk is a record:                                            *)
(*   exists  the root directory exists                                     *)
(*   format  content of <root>/.format, or NONE when the file is absent    *)
(*   dirs    which of objs, tmp, pkgs, cache exist under the root          *)
(*   objdir  names of the entries directly under objs/                     *)
(*   objs    files inside the shard directories, as <<shard, rest>>        *)
(*   top     names of the directories directly under pkgs/                 *)
(*   pkgs    package-path artifacts, keyed by their path below pkgs/       *)
(* File names under objs/ are sequences of characters; the characters      *)
(* 0..15 are the lowercase hex digits, larger numbers are other letters.   *)
(*                                                                         *)
(* stores maps each store root to the store on disk there; opened is the   *)
(* set of roots a PackageStore object exists for; extraDirs is the list    *)
(* QUILT_PACKAGE_DIRS names; last records the last call made.  run holds   *)
(* the processes that execute an operation one filesystem step at a time.  *)
(***************************************************************************)
EXTENDS Integers, Sequences, FiniteSets, TLC

VARIABLES stores, opened, extraDirs, last, run

vars == <<stores, opened, extraDirs, last, run>>

(***************************************************************************)
(* Bounds of the model.                                                    *)
(***************************************************************************)
NumObjs == 2

(***************************************************************************)
(* Program constants.                                                      *)
(***************************************************************************)
DIGEST_LEN == 64
NUM_SHARDS == 256
VERSION == "1.4"
DEFAULT_TEAM == "Quilt"
OBJ_DIR == "objs"
TMP_OBJ_DIR == "tmp"
PKG_DIR == "pkgs"
CACHE_DIR == "cache"
LATEST == "latest"

NONE == "None"

PrimaryRoot == "primary"
ExtraRoot == "extra"
ExtraRoot2 == "extra2"
Roots == {PrimaryRoot, ExtraRoot, ExtraRoot2}

(***************************************************************************)
(* Object hashes: 64 hex digits.  Odd and even objects fall into           *)
(* different shards.                                                       *)
(***************************************************************************)
ObjHashes == [i \in 1..NumObjs |->
                [k \in 1..DIGEST_LEN |-> IF k <= 2 THEN (i % 2) * 15 ELSE i % 16]]
ObjHash(i) == ObjHashes[i]
Objs == {ObjHash(i) : i \in 1..NumObjs}

\* objs/tmp of the older layouts: an entry of objs/ that is not an object.
LegacyTmpEntry == <<29, 22, 25>>

(***************************************************************************)
(* Path layout.                                                            *)
(***************************************************************************)
\* '%02x' % i
Format02x(i) == <<i \div 16, i % 16>>

ShardNames == {Format02x(i) : i \in 0..(NUM_SHARDS - 1)}

\* object_path: objs/<objhash[:2]>/<objhash[2:]>
object_path_drop_prefix(objhash) == <<SubSeq(objhash, 1, 2), objhash>>
object_path(objhash) == <<SubSeq(objhash, 1, 2), SubSeq(objhash, 3, Len(objhash))>>

team_path(team) == IF team = NONE THEN <<DEFAULT_TEAM>> ELSE <<team>>
user_path(team, user) == Append(team_path(team), user)
package_path_ignore_team(team, user, package) == Append(user_path(NONE, user), package)
package_path(team, user, package) == Append(user_path(team, user), package)

\* The hashes whose object file exists at object_path(hash).
ObjectsOnDisk(s) == {h \in Objs : object_path(h) \in s.objs}
\* The hashes stored anywhere in the object directory, flat or sharded.
StoredHashes(s) == {h \in Objs : h \in s.objdir \/ object_path(h) \in s.objs}

(***************************************************************************)
(* Format version file.                                                    *)
(***************************************************************************)
_read_format_version(s) == s.format

_write_format_version_stale(s, version) == s
_write_format_version(s, version) == [s EXCEPT !.format = version]

(***************************************************************************)
(* Constructor: migrations 1.2 -> 1.3 -> 1.4 and the compatibility check.  *)
(* A step result is the store after the step, the local variable           *)
(* `version` and the exception raised ("none" when the step completed).    *)
(***************************************************************************)
StepResult(s, v, e) == [store |-> s, version |-> v, exc |-> e]

\* sub_dirs(pkgdir): the visible directories directly under pkgs/
sub_dirs_top(s) == s.top

\* Lines 50-58.  os.mkdir raises when the default team directory exists;
\* sub_dirs raises when pkgs/ is missing.  Both happen before any change.
Migrate12(s) ==
    IF PKG_DIR \notin s.dirs THEN StepResult(s, "1.2", "OSError")
    ELSE LET old_dirs == sub_dirs_top(s) IN
         IF DEFAULT_TEAM \in s.top THEN StepResult(s, "1.2", "OSError")
         ELSE LET moved == {p \in DOMAIN s.pkgs : p[1] \in old_dirs}
                  kept == (DOMAIN s.pkgs) \ moved
                  newkeys == kept \cup {<<DEFAULT_TEAM>> \o p : p \in moved}
                  s1 == [s EXCEPT
                           !.top = (s.top \ old_dirs) \cup {DEFAULT_TEAM},
                           !.pkgs = [q \in newkeys |->
                                       IF q \in kept THEN s.pkgs[q]
                                       ELSE s.pkgs[Tail(q)]]]
              IN StepResult(_write_format_version(s1, "1.3"), "1.3", "none")

\* Lines 61-72.  os.mkdir raises when objs/ is missing.
Migrate13(s) ==
    IF OBJ_DIR \notin s.dirs THEN StepResult(s, "1.3", "OSError")
    ELSE LET withShards == s.objdir \cup ShardNames
             flat == {obj \in withShards : Len(obj) = DIGEST_LEN}
             s1 == [s EXCEPT
                      !.objdir = withShards \ flat,
                      !.objs = s.objs \cup {object_path(obj) : obj \in flat}]
         IN StepResult(_write_format_version(s1, "1.4"), "1.4", "none")

\* Lines 74-81.
CheckCompatible(r) ==
    IF r.exc = "none" /\ r.version \notin {NONE, VERSION}
    THEN [r EXCEPT !.exc = "StoreException"]
    ELSE r

\* PackageStore.__init__
OpenStore_unknown_as_13(s) ==
    LET v0 == _read_format_version(s)
        r1 == IF v0 = "1.2" THEN Migrate12(s) ELSE StepResult(s, v0, "none")
        r2 == IF r1.exc = "none" /\ r1.version \notin {NONE, VERSION}
              THEN Migrate13(r1.store) ELSE r1
    IN CheckCompatible(r2)
OpenStore(s) ==
    LET v0 == _read_format_version(s)
        r1 == IF v0 = "1.2" THEN Migrate12(s) ELSE StepResult(s, v0, "none")
        r2 == IF r1.exc = "none" /\ r1.version = "1.3"
              THEN Migrate13(r1.store) ELSE r1
    IN CheckCompatible(r2)

(***************************************************************************)
(* Manifests.  A contents tree is a root with file leaves and one level of *)
(* groups holding further file leaves.  Contents(0) is the empty root.     *)
(***************************************************************************)
\* The trees a caller installs, and all trees a manifest may hold.
InstallIds == {1, 2}
ContentsIds == {0} \cup InstallIds
ContentsTrees ==
    [i \in ContentsIds |->
        [files |-> IF i = 0 THEN {} ELSE {ObjHash(i)},
         groups |-> IF i > 1 THEN {{ObjHash(i - 1)}} ELSE {}]]
Contents(i) == ContentsTrees[i]

\* find_object_hashes: every hash carried by a file leaf of the tree.
find_object_hashes_top_level(contents) == contents.files
find_object_hashes(contents) == contents.files \cup UNION contents.groups

\* Package.get_hash: the instance hash of a contents tree.
HashContents(contents) == ToString(CHOOSE i \in ContentsIds : Contents(i) = contents)

\* A manifest file is the serialized tree, here the index of the tree among
\* the trees of the model, or text that does not parse.
EncodeNode(contents) == CHOOSE i \in ContentsIds : Contents(i) = contents
DecodeNode(text) == Contents(text)
ManifestFile(contents) == [parses |-> TRUE, text |-> EncodeNode(contents)]
CorruptFile == [parses |-> FALSE, text |-> 0]

\* is_nodename
InvalidNames == {"bad-team", "9lives", "no name"}
is_nodename(name) == name \notin InvalidNames

(***************************************************************************)
(* A package-path artifact: a package directory with its instance files    *)
(* (contents/<hash>) and tag files (tags/<name>), or a stray regular file. *)
(***************************************************************************)
EmptyFn == [x \in {} |-> x]
PkgDir(insts, tags) == [kind |-> "dir", contents |-> insts, tags |-> tags]
PkgFile == [kind |-> "file", contents |-> EmptyFn, tags |-> EmptyFn]

isdir(s, path) == path \in DOMAIN s.pkgs /\ s.pkgs[path].kind = "dir"

\* Package._load_contents: the manifest of instance pkghash, or of the
\* instance the latest tag names when pkghash is NONE.
LoadResult(ok, contents) == [ok |-> ok, contents |-> contents]
LoadFailed == LoadResult(FALSE, Contents(0))
_load_contents(pk, pkghash) ==
    IF pkghash = NONE /\ LATEST \notin DOMAIN pk.tags THEN LoadFailed
    ELSE LET instance_hash == IF pkghash = NONE THEN pk.tags[LATEST] ELSE pkghash IN
         IF instance_hash \notin DOMAIN pk.contents THEN LoadFailed
         ELSE IF ~pk.contents[instance_hash].parses THEN LoadFailed
         ELSE LoadResult(TRUE, DecodeNode(pk.contents[instance_hash].text))

\* Package(store, user, package, path, contents=contents): creates the
\* package directory when missing, saves the manifest as an instance and
\* points the latest tag at it.
PackageCreate(s, path, contents) ==
    LET old == IF isdir(s, path) THEN s.pkgs[path] ELSE PkgDir(EmptyFn, EmptyFn)
        h == HashContents(contents)
        pk == PkgDir(
                [i \in (DOMAIN old.contents) \cup {h} |->
                    IF i = h THEN ManifestFile(contents) ELSE old.contents[i]],
                [t \in (DOMAIN old.tags) \cup {LATEST} |->
                    IF t = LATEST THEN h ELSE old.tags[t]])
    IN [s EXCEPT
          !.top = s.top \cup {path[1]},
          !.pkgs = [q \in (DOMAIN s.pkgs) \cup {path} |->
                      IF q = path THEN pk ELSE s.pkgs[q]]]

(***************************************************************************)
(* check_name                                                              *)
(***************************************************************************)
check_name(team, user, package) ==
    IF team # NONE /\ ~is_nodename(team) THEN "StoreException"
    ELSE IF ~is_nodename(user) THEN "StoreException"
    ELSE IF ~is_nodename(package) THEN "StoreException"
    ELSE "none"

(***************************************************************************)
(* create_dirs                                                             *)
(***************************************************************************)
create_dirs_no_version(s) ==
    [s EXCEPT
       !.exists = TRUE,
       !.dirs = s.dirs \cup {OBJ_DIR, TMP_OBJ_DIR, PKG_DIR, CACHE_DIR},
       !.objdir = s.objdir \cup ShardNames]
create_dirs(s) ==
    LET s1 == [s EXCEPT
                 !.exists = TRUE,
                 !.dirs = s.dirs \cup {OBJ_DIR, TMP_OBJ_DIR, PKG_DIR, CACHE_DIR},
                 !.objdir = s.objdir \cup ShardNames]
    IN IF s1.format = NONE THEN _write_format_version(s1, VERSION) ELSE s1

(***************************************************************************)
(* iterpackages: the <<package path, instance hash>> pairs found by the    *)
(* nested enumeration team dirs -> user dirs -> package dirs -> instance   *)
(* files.                                                                  *)
(***************************************************************************)
iterpackages(s) ==
    IF PKG_DIR \notin s.dirs THEN {}
    ELSE UNION {{<<path, hsh>> : hsh \in DOMAIN s.pkgs[path].contents} :
                   path \in {q \in DOMAIN s.pkgs :
                                Len(q) = 3 /\ q[1] \in s.top /\ isdir(s, q)}}

\* The hashes referenced by the instances that load.
Marked(s, insts) ==
    UNION {find_object_hashes(_load_contents(s.pkgs[i[1]], i[2]).contents) : i \in insts}

(***************************************************************************)
(* prune                                                                   *)
(***************************************************************************)
OpResult(s, removed, exc) == [store |-> s, removed |-> removed, exc |-> exc]

prune_no_mark(s, objs) ==
    OpResult([s EXCEPT !.objs = s.objs \ {object_path(obj) : obj \in objs}],
             objs, "none")
prune_keep_files(s, objs) ==
    LET insts == iterpackages(s) IN
    IF \E i \in insts : ~_load_contents(s.pkgs[i[1]], i[2]).ok
    THEN OpResult(s, {}, "PackageException")
    ELSE OpResult(s, objs \ Marked(s, insts), "none")
prune_returns_candidates(s, objs) ==
    LET insts == iterpackages(s) IN
    IF \E i \in insts : ~_load_contents(s.pkgs[i[1]], i[2]).ok
    THEN OpResult(s, {}, "PackageException")
    ELSE LET remove_objs == objs \ Marked(s, insts) IN
         OpResult([s EXCEPT !.objs = s.objs \ {object_path(obj) : obj \in remove_objs}],
                  objs, "none")
prune(s, objs) ==
    LET insts == iterpackages(s) IN
    IF \E i \in insts : ~_load_contents(s.pkgs[i[1]], i[2]).ok
    THEN OpResult(s, {}, "PackageException")
    ELSE LET remove_objs == objs \ Marked(s, insts) IN
         OpResult([s EXCEPT !.objs = s.objs \ {object_path(obj) : obj \in remove_objs}],
                  remove_objs, "none")

(***************************************************************************)
(* ls_packages.  The list it returns is kept as a bag of rows: every       *)
(* packages.append adds one to the count of its row.  A row is             *)
(* <<fullpkg, tag, pkghash>>, fullpkg being the pieces of the formatted    *)
(* name.                                                                   *)
(***************************************************************************)
\* The package directories the nested sub_dirs enumeration visits.
package_dirs(s) == {q \in DOMAIN s.pkgs : Len(q) = 3 /\ q[1] \in s.top /\ isdir(s, q)}

\* "{team}{owner}/{pkg}" with team_token '' for the default team.
fullpkg(team, user, pkg) ==
    (IF team \in {DEFAULT_TEAM} THEN << >> ELSE <<team, ":">>) \o <<user, "/", pkg>>

\* pkgmap[pkghash] once the tag files are read, and the tags displayed.
pkgmap(pk, pkghash) == {tag \in DOMAIN pk.tags : pk.tags[tag] = pkghash}
displaytags(pk, pkghash) == IF pkgmap(pk, pkghash) = {} THEN {""} ELSE pkgmap(pk, pkghash)

LsResult(rows, exc) == [rows |-> rows, exc |-> exc]

\* pkgmap[pkghash].append(tag) raises KeyError when the tag file names a
\* hash that is not a file of contents/.
ls_packages(s) ==
    IF PKG_DIR \notin s.dirs THEN LsResult(EmptyFn, "none")
    ELSE IF \E q \in package_dirs(s) : \E tag \in DOMAIN s.pkgs[q].tags :
               s.pkgs[q].tags[tag] \notin DOMAIN s.pkgs[q].contents
    THEN LsResult(EmptyFn, "KeyError")
    ELSE LET appends == UNION {{<<q, pkghash, tag>> :
                                   pkghash \in DOMAIN s.pkgs[q].contents,
                                   tag \in DOMAIN s.pkgs[q].tags \cup {""}} :
                               q \in package_dirs(s)}
             made == {a \in appends : a[3] \in displaytags(s.pkgs[a[1]], a[2])}
             row(a) == <<fullpkg(a[1][1], a[1][2], a[1][3]), a[3], a[2]>>
         IN LsResult([w \in {row(a) : a \in made} |->
                         Cardinality({a \in made : row(a) = w})],
                     "none")

(***************************************************************************)
(* get_package, install_package, remove_package                            *)
(***************************************************************************)
GetResult(found, contents, exc) == [found |-> found, contents |-> contents, exc |-> exc]

get_package_default_team(s, team, user, package) ==
    IF check_name(team, user, package) # "none"
    THEN GetResult(FALSE, Contents(0), check_name(team, user, package))
    ELSE LET path == package_path_ignore_team(team, user, package) IN
         IF isdir(s, path) /\ _load_contents(s.pkgs[path], NONE).ok
         THEN GetResult(TRUE, _load_contents(s.pkgs[path], NONE).contents, "none")
         ELSE GetResult(FALSE, Contents(0), "none")
get_package_uncaught(s, team, user, package) ==
    IF check_name(team, user, package) # "none"
    THEN GetResult(FALSE, Contents(0), check_name(team, user, package))
    ELSE LET path == package_path(team, user, package) IN
         IF isdir(s, path)
         THEN IF _load_contents(s.pkgs[path], NONE).ok
              THEN GetResult(TRUE, _load_contents(s.pkgs[path], NONE).contents, "none")
              ELSE GetResult(FALSE, Contents(0), "PackageException")
         ELSE GetResult(FALSE, Contents(0), "none")
get_package(s, team, user, package) ==
    IF check_name(team, user, package) # "none"
    THEN GetResult(FALSE, Contents(0), check_name(team, user, package))
    ELSE LET path == package_path(team, user, package) IN
         IF isdir(s, path) /\ _load_contents(s.pkgs[path], NONE).ok
         THEN GetResult(TRUE, _load_contents(s.pkgs[path], NONE).contents, "none")
         ELSE GetResult(FALSE, Contents(0), "none")

\* The contents argument: a contents tree of the pool, or None.
NoContents == -1

\* os.remove(path): removes a regular file; raises OSError, which the
\* caller ignores, when path is a directory or does not exist.
os_remove(s, path) ==
    IF path \in DOMAIN s.pkgs /\ s.pkgs[path].kind = "file"
    THEN [s EXCEPT !.pkgs = [q \in (DOMAIN s.pkgs) \ {path} |-> s.pkgs[q]]]
    ELSE s

install_package_dirs_first(s, team, user, package, cid) ==
    IF check_name(team, user, package) # "none"
    THEN OpResult(create_dirs(s), {}, check_name(team, user, package))
    ELSE IF cid = NoContents THEN OpResult(s, {}, "AssertionError")
    ELSE LET path == package_path(team, user, package)
         IN OpResult(PackageCreate(os_remove(create_dirs(s), path), path, Contents(cid)),
                     {}, "none")
install_package(s, team, user, package, cid) ==
    IF check_name(team, user, package) # "none"
    THEN OpResult(s, {}, check_name(team, user, package))
    ELSE IF cid = NoContents THEN OpResult(s, {}, "AssertionError")
    ELSE LET path == package_path(team, user, package)
         IN OpResult(PackageCreate(os_remove(create_dirs(s), path), path, Contents(cid)),
                     {}, "none")

\* rmtree(path)
rmtree(s, path) == [s EXCEPT !.pkgs = [q \in (DOMAIN s.pkgs) \ {path} |-> s.pkgs[q]]]

\* The candidate set remove_package collects from the package's instances.
CollectObjs(pk) ==
    UNION {find_object_hashes(_load_contents(pk, i).contents) : i \in DOMAIN pk.contents}

remove_package_no_prune(s, team, user, package) ==
    IF check_name(team, user, package) # "none"
    THEN OpResult(s, {}, check_name(team, user, package))
    ELSE LET path == package_path(team, user, package) IN
         IF isdir(s, path)
         THEN IF \E i \in DOMAIN s.pkgs[path].contents : ~_load_contents(s.pkgs[path], i).ok
              THEN OpResult(s, {}, "PackageException")
              ELSE OpResult(rmtree(s, path), {}, "none")
         ELSE prune(s, {})
remove_package_rmtree_first(s, team, user, package) ==
    IF check_name(team, user, package) # "none"
    THEN OpResult(s, {}, check_name(team, user, package))
    ELSE LET path == package_path(team, user, package) IN
         IF isdir(s, path)
         THEN IF \E i \in DOMAIN s.pkgs[path].contents : ~_load_contents(s.pkgs[path], i).ok
              THEN OpResult(rmtree(s, path), {}, "PackageException")
              ELSE prune(rmtree(s, path), CollectObjs(s.pkgs[path]))
         ELSE prune(s, {})
remove_package(s, team, user, package) ==
    IF check_name(team, user, package) # "none"
    THEN OpResult(s, {}, check_name(team, user, package))
    ELSE LET path == package_path(team, user, package) IN
         IF isdir(s, path)
         THEN IF \E i \in DOMAIN s.pkgs[path].contents : ~_load_contents(s.pkgs[path], i).ok
              THEN OpResult(s, {}, "PackageException")
              ELSE prune(rmtree(s, path), CollectObjs(s.pkgs[path]))
         ELSE prune(s, {})

(***************************************************************************)
(* find_store_dirs, find_package                                           *)
(***************************************************************************)
default_store_location == PrimaryRoot

find_store_dirs_extras_first(extra) == extra \o <<default_store_location>>
find_store_dirs(extra) == <<default_store_location>> \o extra

FindResult(st, found, contents, exc, root) ==
    [stores |-> st, found |-> found, contents |-> contents, exc |-> exc, root |-> root]

RECURSIVE FindIn(_, _, _, _, _, _)
FindIn(st, dirs, i, team, user, package) ==
    IF i > Len(dirs) THEN FindResult(st, FALSE, Contents(0), "none", NONE)
    ELSE LET o == OpenStore(st[dirs[i]])
             st1 == [st EXCEPT ![dirs[i]] = o.store]
         IN IF o.exc # "none" THEN FindResult(st1, FALSE, Contents(0), o.exc, NONE)
            ELSE LET pkg == get_package(o.store, team, user, package) IN
                 IF pkg.found THEN FindResult(st1, TRUE, pkg.contents, "none", dirs[i])
                 ELSE FindIn(st1, dirs, i + 1, team, user, package)

find_package(st, extra, team, user, package) ==
    IF check_name(team, user, package) # "none"
    THEN FindResult(st, FALSE, Contents(0), check_name(team, user, package), NONE)
    ELSE FindIn(st, find_store_dirs(extra), 1, team, user, package)

(***************************************************************************)
(* Stores found on disk when the process starts.                           *)
(***************************************************************************)
EmptyStore ==
    [exists |-> FALSE, format |-> NONE, dirs |-> {}, objdir |-> {}, objs |-> {},
     top |-> {}, pkgs |-> EmptyFn]

\* A package directory holding one instance, tagged latest.
SamplePkg(cid) ==
    PkgDir([h \in {HashContents(Contents(cid))} |-> ManifestFile(Contents(cid))],
           [t \in {LATEST} |-> HashContents(Contents(cid))])
\* A package directory with two instances, the first one tagged twice and
\* the second untagged.
TaggedPkg ==
    PkgDir([h \in {HashContents(Contents(1)), HashContents(Contents(2))} |->
               IF h = HashContents(Contents(1)) THEN ManifestFile(Contents(1))
               ELSE ManifestFile(Contents(2))],
           [t \in {LATEST, "v1"} |-> HashContents(Contents(1))])
\* A package directory with a tag naming an instance that is not there.
DanglingPkg ==
    PkgDir([h \in {HashContents(Contents(1))} |-> ManifestFile(Contents(1))],
           [t \in {LATEST, "v1"} |->
               IF t = LATEST THEN HashContents(Contents(1)) ELSE HashContents(Contents(2))])
\* A package directory whose only manifest was left unparseable.
CorruptPkg ==
    PkgDir([h \in {HashContents(Contents(0))} |-> CorruptFile],
           [t \in {LATEST} |-> HashContents(Contents(0))])

\* Format 1.2: pkgs/<owner>/<package>, flat objects.
Legacy12(owners, flat) ==
    [exists |-> TRUE, format |-> "1.2", dirs |-> {OBJ_DIR, PKG_DIR},
     objdir |-> flat, objs |-> {},
     top |-> owners,
     pkgs |-> [q \in {<<o, "weather">> : o \in owners} |-> SamplePkg(1)]]

\* Format 1.3: pkgs/<team>/<owner>/<package>, flat objects, and possibly
\* other entries under objs/: objs/tmp and the shard directory 00.
Legacy13(flat, others) ==
    [exists |-> TRUE, format |-> "1.3", dirs |-> {OBJ_DIR, PKG_DIR},
     objdir |-> flat \cup others,
     objs |-> {},
     top |-> {DEFAULT_TEAM},
     pkgs |-> [q \in {<<DEFAULT_TEAM, "alice", "weather">>} |-> SamplePkg(1)]]

Variants == {"shared", "corrupt", "stray", "tagged", "dangling"}

\* The current layout, under a given content of .format.
Current(format, variant) ==
    [exists |-> TRUE, format |-> format,
     dirs |-> {OBJ_DIR, TMP_OBJ_DIR, PKG_DIR, CACHE_DIR},
     objdir |-> ShardNames,
     objs |-> {object_path(h) : h \in Objs},
     top |-> {DEFAULT_TEAM, "acme"},
     pkgs |-> [q \in {<<DEFAULT_TEAM, "alice", "weather">>, <<"acme", "alice", "weather">>} |->
                 IF q[1] = DEFAULT_TEAM
                 THEN (IF variant = "stray" THEN PkgFile
                       ELSE IF variant = "tagged" THEN TaggedPkg ELSE SamplePkg(2))
                 ELSE (IF variant = "corrupt" THEN CorruptPkg
                       ELSE IF variant = "dangling" THEN DanglingPkg ELSE SamplePkg(1))]]

IncompatibleFormats == {"", "1.1", "2.0", "1.4\n"}

InitStores ==
    {EmptyStore}
    \cup {Legacy12(ow, Objs) : ow \in SUBSET {"alice", "acme", DEFAULT_TEAM}}
    \cup {Legacy13(fl, ot) : fl \in SUBSET Objs, ot \in {{}, {LegacyTmpEntry, Format02x(0)}}}
    \cup {Current(VERSION, v) : v \in Variants}
    \cup {Current(f, "shared") : f \in IncompatibleFormats}

(***************************************************************************)
(* Processes that run an operation one filesystem step at a time.  The     *)
(* local state of a process: pc is its position, version, old_dirs, i and  *)
(* entries are the locals of the constructor, dirty tells that the         *)
(* migration under way has changed the disk, remove_objs, scanned and      *)
(* swept are the candidate set of prune, the instances its scan has        *)
(* loaded and the candidates its sweep has handled, topublish, id and cid  *)
(* are the objects, the identity and the contents of an install under way. *)
(***************************************************************************)
ProcIds == {1, 2}

LocalIdle ==
    [pc |-> "idle", version |-> NONE, old_dirs |-> {}, i |-> 0, entries |-> {},
     dirty |-> FALSE, remove_objs |-> {}, scanned |-> {}, swept |-> {},
     topublish |-> {}, id |-> <<NONE, NONE, NONE>>, cid |-> -1]

\* mode: whether callers serialize the processes; restarts: how many times
\* a process was stopped; midcrash: a process was stopped inside a
\* migration that had changed the disk; crashpc: where the last process
\* stopped was; orig: the store first found on disk; deleted: the object
\* files prune has deleted so far.
RunState(mode, orig) ==
    [mode |-> mode, restarts |-> 0, midcrash |-> FALSE, crashpc |-> "idle",
     orig |-> orig, deleted |-> {},
     p |-> [i \in ProcIds |-> LocalIdle]]

RunIdle == RunState("none", EmptyStore)

(***************************************************************************)
(* The record of the last call: its arguments, the exception it raised     *)
(* ("none" when it returned) and what it returned.  cand is the candidate  *)
(* set handed to prune; follows marks a get_package that comes directly    *)
(* after a successful install_package of the same identity; rows is the    *)
(* list ls_packages returned; deleted is the set of hashes whose object    *)
(* file the call deleted.                                                  *)
(***************************************************************************)
Call(op, root, id, cand, cid, exc, removed, found, contents) ==
    [op |-> op, root |-> root, team |-> id[1], user |-> id[2], package |-> id[3],
     cand |-> cand, cid |-> cid, exc |-> exc,
     removed |-> removed, found |-> found, contents |-> contents,
     follows |-> FALSE, rows |-> EmptyFn, deleted |-> {}]

NoId == <<NONE, NONE, NONE>>

\* The (team, user, package) arguments of the calls: two valid identities
\* and one with each component failing the validator.
IdArgs ==
    {<<NONE, "alice", "weather">>, <<"acme", "alice", "weather">>,
     <<"bad-team", "alice", "weather">>, <<NONE, "9lives", "weather">>,
     <<NONE, "alice", "no name">>}

Range(f) == {f[i] : i \in DOMAIN f}

Init ==
    /\ stores \in {[r \in Roots |-> IF r = PrimaryRoot THEN s ELSE EmptyStore] :
                      s \in InitStores}
    /\ opened = {}
    /\ extraDirs = << >>
    /\ last = Call("start", NONE, NoId, {}, NoContents, "none", {}, FALSE, Contents(0))
    /\ run = RunIdle

(***************************************************************************)
(* Operations.                                                             *)
(***************************************************************************)
\* PackageStore(location)
Open(r) ==
    /\ r \in Range(find_store_dirs(extraDirs))
    /\ LET o == OpenStore(stores[r]) IN
         /\ stores' = [stores EXCEPT ![r] = o.store]
         /\ opened' = IF o.exc = "none" THEN opened \cup {r} ELSE opened
         /\ last' = Call("open", r, NoId, {}, NoContents, o.exc, {}, FALSE, Contents(0))
    /\ UNCHANGED <<extraDirs, run>>

CreateDirs(r) ==
    /\ r \in opened
    /\ stores' = [stores EXCEPT ![r] = create_dirs(stores[r])]
    /\ last' = Call("create_dirs", r, NoId, {}, NoContents, "none", {}, FALSE, Contents(0))
    /\ UNCHANGED <<opened, extraDirs, run>>

GetPackage(r, team, user, package) ==
    /\ r \in opened
    /\ LET g == get_package(stores[r], team, user, package) IN
         last' = [Call("get_package", r, <<team, user, package>>, {}, NoContents,
                       g.exc, {}, g.found, g.contents)
                  EXCEPT !.follows =
                     /\ last.op = "install_package" /\ last.exc = "none"
                     /\ last.root = r
                     /\ <<last.team, last.user, last.package>> = <<team, user, package>>]
    /\ UNCHANGED <<stores, opened, extraDirs, run>>

InstallPackage(r, team, user, package, cid) ==
    /\ r \in opened
    /\ LET o == install_package(stores[r], team, user, package, cid) IN
         /\ stores' = [stores EXCEPT ![r] = o.store]
         /\ last' = Call("install_package", r, <<team, user, package>>, {}, cid,
                         o.exc, {}, FALSE, Contents(0))
    /\ UNCHANGED <<opened, extraDirs, run>>

RemovePackage(r, team, user, package) ==
    /\ r \in opened
    /\ LET o == remove_package(stores[r], team, user, package)
           path == package_path(team, user, package)
           cand == IF o.exc = "none" /\ isdir(stores[r], path)
                   THEN CollectObjs(stores[r].pkgs[path]) ELSE {}
       IN
         /\ stores' = [stores EXCEPT ![r] = o.store]
         /\ last' = [Call("remove_package", r, <<team, user, package>>, cand, NoContents,
                          o.exc, o.removed, FALSE, Contents(0))
                      EXCEPT !.deleted = ObjectsOnDisk(stores[r]) \ ObjectsOnDisk(o.store)]
    /\ UNCHANGED <<opened, extraDirs, run>>

Prune(r, objs) ==
    /\ r \in opened
    /\ LET o == prune(stores[r], objs) IN
         /\ stores' = [stores EXCEPT ![r] = o.store]
         /\ last' = [Call("prune", r, NoId, objs, NoContents, o.exc, o.removed,
                          FALSE, Contents(0))
                      EXCEPT !.deleted = ObjectsOnDisk(stores[r]) \ ObjectsOnDisk(o.store)]
    /\ UNCHANGED <<opened, extraDirs, run>>

FindPackage(team, user, package) ==
    /\ LET f == find_package(stores, extraDirs, team, user, package) IN
         /\ stores' = f.stores
         /\ last' = Call("find_package", f.root, <<team, user, package>>, {}, NoContents,
                         f.exc, {}, f.found, f.contents)
    /\ UNCHANGED <<opened, extraDirs, run>>

LsPackages(r) ==
    /\ r \in opened
    /\ LET l == ls_packages(stores[r]) IN
         last' = [Call("ls_packages", r, NoId, {}, NoContents, l.exc, {}, FALSE, Contents(0))
                  EXCEPT !.rows = l.rows]
    /\ UNCHANGED <<stores, opened, extraDirs, run>>

\* A caller publishes an object: the staged file is moved to object_path.
publish_object(s, objhash) == [s EXCEPT !.objs = s.objs \cup {object_path(objhash)}]

PublishObject(r, objhash) ==
    /\ r \in opened
    /\ OBJ_DIR \in stores[r].dirs
    /\ SubSeq(objhash, 1, 2) \in stores[r].objdir
    /\ stores' = [stores EXCEPT ![r] = publish_object(stores[r], objhash)]
    /\ last' = Call("publish", r, NoId, {objhash}, NoContents, "none", {}, FALSE, Contents(0))
    /\ UNCHANGED <<opened, extraDirs, run>>

Next ==
    \/ \E r \in Roots : Open(r)
    \/ \E r \in Roots : CreateDirs(r)
    \/ \E r \in Roots, id \in IdArgs : GetPackage(r, id[1], id[2], id[3])
    \/ \E r \in Roots, id \in IdArgs, cid \in InstallIds \cup {NoContents} :
          /\ check_name(id[1], id[2], id[3]) # "none" => cid \in {1, NoContents}
          /\ InstallPackage(r, id[1], id[2], id[3], cid)
    \/ \E r \in Roots, id \in IdArgs : RemovePackage(r, id[1], id[2], id[3])
    \/ \E r \in Roots, objs \in SUBSET Objs : Prune(r, objs)
    \/ \E id \in IdArgs : FindPackage(id[1], id[2], id[3])
    \/ \E r \in Roots, h \in Objs : PublishObject(r, h)
    \/ \E r \in Roots : LsPackages(r)

Spec == Init /\ [][Next]_vars

(***************************************************************************)
(* Several store roots: QUILT_PACKAGE_DIRS names extra roots, each with a  *)
(* store of its own on disk.                                               *)
(***************************************************************************)
\* The values of QUILT_PACKAGE_DIRS, split at the colons.
ExtraLists ==
    {<< >>, <<ExtraRoot>>, <<ExtraRoot, ExtraRoot2>>, <<ExtraRoot2, ExtraRoot>>}

\* What a root may hold: nothing, a current store, one with an unparseable
\* manifest, stores still to be migrated and one of an unknown format.
FindStores ==
    {EmptyStore, Current(VERSION, "shared"), Current(VERSION, "corrupt"),
     Legacy13(Objs, {}), Legacy12({"alice"}, Objs), Current("2.0", "shared")}

InitFind ==
    /\ stores \in [Roots -> FindStores]
    /\ opened = {}
    /\ extraDirs \in ExtraLists
    /\ last = Call("start", NONE, NoId, {}, NoContents, "none", {}, FALSE, Contents(0))
    /\ run = RunIdle

NextFind ==
    \/ \E id \in IdArgs : FindPackage(id[1], id[2], id[3])
    \/ \E r \in Roots : Open(r)

SpecFind == InitFind /\ [][NextFind]_vars

(***************************************************************************)
(* The constructor and prune, one filesystem step at a time, by a process  *)
(* that may be stopped after any step and started again.  The store is     *)
(* the one at the primary root.                                            *)
(***************************************************************************)
MaxRestarts == 1

Disk == stores[PrimaryRoot]

\* The loop index values of the shard mkdir loop at which the process is
\* observed: after the first mkdir, half way, and at the end.
ShardStops == {1, 128, NUM_SHARDS}

\* os.rename(pkgdir/old_dir, pkgdir/DEFAULT_TEAM/old_dir)
rename_owner(s, old_dir) ==
    LET moved == {q \in DOMAIN s.pkgs : q[1] = old_dir}
        kept == (DOMAIN s.pkgs) \ moved
    IN [s EXCEPT
          !.top = s.top \ {old_dir},
          !.pkgs = [q \in kept \cup {<<DEFAULT_TEAM>> \o m : m \in moved} |->
                      IF q \in kept THEN s.pkgs[q] ELSE s.pkgs[Tail(q)]]]

\* os.rename(objs/obj, object_path(obj))
rename_object(s, obj) ==
    [s EXCEPT !.objdir = s.objdir \ {obj}, !.objs = s.objs \cup {object_path(obj)}]

\* One step of process i: its local state becomes l, the disk becomes s.
Step(i, l, s) ==
    /\ run' = [run EXCEPT !.p[i] = l]
    /\ stores' = [stores EXCEPT ![PrimaryRoot] = s]
    /\ UNCHANGED <<opened, extraDirs, last>>

\* Line 48.
ReadVersion(i) ==
    /\ run.p[i].pc = "idle"
    /\ LET version == _read_format_version(Disk) IN
         Step(i, [run.p[i] EXCEPT
                    !.version = version,
                    !.pc = IF version = "1.2" THEN "m12_list"
                           ELSE IF version = "1.3" THEN "m13_mkdir" ELSE "check"],
              Disk)

\* Line 53.
M12List(i) ==
    /\ run.p[i].pc = "m12_list"
    /\ IF PKG_DIR \notin Disk.dirs
       THEN Step(i, [run.p[i] EXCEPT !.pc = "failed"], Disk)
       ELSE Step(i, [run.p[i] EXCEPT !.pc = "m12_mkdir", !.old_dirs = sub_dirs_top(Disk)], Disk)

\* Line 54.
M12Mkdir(i) ==
    /\ run.p[i].pc = "m12_mkdir"
    /\ IF DEFAULT_TEAM \in Disk.top
       THEN Step(i, [run.p[i] EXCEPT !.pc = "failed"], Disk)
       ELSE Step(i, [run.p[i] EXCEPT !.pc = "m12_rename", !.dirty = TRUE],
                 [Disk EXCEPT !.top = Disk.top \cup {DEFAULT_TEAM}])

\* Lines 55-56: one turn of the loop, in the order sub_dirs listed them.
M12Rename(i) ==
    /\ run.p[i].pc = "m12_rename"
    /\ \E old_dir \in run.p[i].old_dirs :
          Step(i, [run.p[i] EXCEPT !.old_dirs = run.p[i].old_dirs \ {old_dir}],
               rename_owner(Disk, old_dir))

\* Lines 57-58.
M12Write(i) ==
    /\ run.p[i].pc = "m12_rename"
    /\ run.p[i].old_dirs = {}
    /\ Step(i, [run.p[i] EXCEPT !.version = "1.3", !.pc = "m13_mkdir"],
            _write_format_version(Disk, "1.3"))

\* Lines 63-66: the turns of the loop up to the next stop.
M13Mkdir(i) ==
    /\ run.p[i].pc = "m13_mkdir"
    /\ IF OBJ_DIR \notin Disk.dirs
       THEN Step(i, [run.p[i] EXCEPT !.pc = "failed"], Disk)
       ELSE LET stop == CHOOSE n \in ShardStops :
                           /\ n > run.p[i].i
                           /\ \A m \in ShardStops : m > run.p[i].i => n <= m
            IN Step(i, [run.p[i] EXCEPT !.i = stop, !.dirty = TRUE,
                                        !.pc = IF stop = NUM_SHARDS THEN "m13_list"
                                               ELSE "m13_mkdir"],
                    [Disk EXCEPT !.objdir = Disk.objdir
                                    \cup {Format02x(n) : n \in run.p[i].i..(stop - 1)}])

\* Line 67: os.listdir(object_dir()); the entries the loop will rename.
M13List(i) ==
    /\ run.p[i].pc = "m13_list"
    /\ Step(i, [run.p[i] EXCEPT !.pc = "m13_rename",
                                !.entries = {obj \in Disk.objdir : Len(obj) = DIGEST_LEN}],
            Disk)

\* Lines 68-69: one rename, in the order listdir gave.
M13Rename(i) ==
    /\ run.p[i].pc = "m13_rename"
    /\ \E obj \in run.p[i].entries :
          Step(i, [run.p[i] EXCEPT !.entries = run.p[i].entries \ {obj}],
               rename_object(Disk, obj))

\* Lines 71-72.
M13Write(i) ==
    /\ run.p[i].pc = "m13_rename"
    /\ run.p[i].entries = {}
    /\ Step(i, [run.p[i] EXCEPT !.version = "1.4", !.pc = "check"],
            _write_format_version(Disk, "1.4"))

\* Lines 74-81.
CheckVersion(i) ==
    /\ run.p[i].pc = "check"
    /\ Step(i, [run.p[i] EXCEPT
                   !.dirty = FALSE,
                   !.pc = IF run.p[i].version \notin {NONE, VERSION} THEN "failed"
                          ELSE "opened"],
            Disk)

\* prune, line 320.
PruneStart(i, objs) ==
    /\ run.p[i].pc = "opened"
    /\ Step(i, [run.p[i] EXCEPT !.pc = "prune_mark", !.remove_objs = objs,
                                !.scanned = {}, !.swept = {}],
            Disk)

\* The generator of iterpackages is exhausted: every instance found on disk
\* has been yielded.
mark_done_early(s, scanned) == TRUE
mark_done(s, scanned) == iterpackages(s) \subseteq scanned

\* remove_objs.difference_update(find_object_hashes(pkg.get_contents()))
difference_update_noop(remove_objs, contents) == remove_objs
difference_update(remove_objs, contents) == remove_objs \ find_object_hashes(contents)

\* Lines 322-323: one turn of the loop; loading the instance may raise.
PruneMark(i) ==
    /\ run.p[i].pc = "prune_mark"
    /\ \E inst \in iterpackages(Disk) \ run.p[i].scanned :
          LET pkg == _load_contents(Disk.pkgs[inst[1]], inst[2]) IN
             IF ~pkg.ok
             THEN Step(i, [run.p[i] EXCEPT !.pc = "raised"], Disk)
             ELSE Step(i, [run.p[i] EXCEPT
                             !.remove_objs = difference_update(run.p[i].remove_objs,
                                                               pkg.contents),
                             !.scanned = run.p[i].scanned \cup {inst}],
                       Disk)

\* Line 322, the loop ends.
PruneMarkEnd(i) ==
    /\ run.p[i].pc = "prune_mark"
    /\ mark_done(Disk, run.p[i].scanned)
    /\ Step(i, [run.p[i] EXCEPT !.pc = "prune_sweep"], Disk)

\* Lines 325-328: one turn of the loop.
PruneSweep(i) ==
    /\ run.p[i].pc = "prune_sweep"
    /\ \E obj \in run.p[i].remove_objs \ run.p[i].swept :
          /\ run' = [run EXCEPT
                       !.p[i].swept = run.p[i].swept \cup {obj},
                       !.deleted = IF object_path(obj) \in Disk.objs
                                   THEN run.deleted \cup {obj} ELSE run.deleted]
          /\ stores' = [stores EXCEPT
                          ![PrimaryRoot].objs = Disk.objs \ {object_path(obj)}]
          /\ UNCHANGED <<opened, extraDirs, last>>

\* Line 329.
PruneReturn(i) ==
    /\ run.p[i].pc = "prune_sweep"
    /\ run.p[i].remove_objs \subseteq run.p[i].swept
    /\ Step(i, [run.p[i] EXCEPT !.pc = "pruned"], Disk)

\* The process is stopped where it stands; the next one starts afresh.
Crash(i) ==
    /\ run.p[i].pc # "idle"
    /\ run.restarts < MaxRestarts
    /\ run' = [run EXCEPT
                 !.p[i] = LocalIdle,
                 !.restarts = run.restarts + 1,
                 !.crashpc = run.p[i].pc,
                 !.midcrash = run.midcrash
                                 \/ (run.p[i].dirty /\ run.p[i].pc # "failed")]
    /\ UNCHANGED <<stores, opened, extraDirs, last>>

\* The stores a process may find: legacy ones to migrate and current ones.
CrashStores ==
    {Legacy12(ow, Objs) : ow \in SUBSET {"alice", "acme", DEFAULT_TEAM}}
    \cup {Legacy13(fl, ot) : fl \in SUBSET Objs, ot \in {{}, {LegacyTmpEntry, Format02x(0)}}}
    \cup {Current(VERSION, v) : v \in {"shared", "corrupt", "stray"}}

InitCrash ==
    /\ \E s \in CrashStores :
          /\ stores = [r \in Roots |-> IF r = PrimaryRoot THEN s ELSE EmptyStore]
          /\ run = RunState("none", s)
    /\ opened = {}
    /\ extraDirs = << >>
    /\ last = Call("start", NONE, NoId, {}, NoContents, "none", {}, FALSE, Contents(0))

NextCrash ==
    \/ ReadVersion(1)
    \/ M12List(1)
    \/ M12Mkdir(1)
    \/ M12Rename(1)
    \/ M12Write(1)
    \/ M13Mkdir(1)
    \/ M13List(1)
    \/ M13Rename(1)
    \/ M13Write(1)
    \/ CheckVersion(1)
    \/ \E objs \in SUBSET Objs : PruneStart(1, objs)
    \/ PruneMark(1)
    \/ PruneMarkEnd(1)
    \/ PruneSweep(1)
    \/ PruneReturn(1)
    \/ Crash(1)

SpecCrash == InitCrash /\ [][NextCrash]_vars

(***************************************************************************)
(* Two processes on one store, each with a PackageStore object on it.      *)
(* Process 1 prunes, directly or at the end of remove_package; process 2   *)
(* publishes the objects of a contents tree and installs a package with    *)
(* that tree; each makes one such call.  Every step is one statement with  *)
(* a filesystem call.  When the callers serialize, a process takes a step  *)
(* only while the other is between calls.                                  *)
(***************************************************************************)
Pruner == 1
Builder == 2

\* The positions between two calls.
Quiet == {"opened", "pruned", "raised", "installed"}

Allowed(i) ==
    \/ run.mode = "interleaved"
    \/ \A j \in ProcIds \ {i} : run.p[j].pc \in Quiet

\* remove_package, lines 212-222: the names are checked and every instance
\* of the package directory is loaded.
RemoveCollect(i, id) ==
    /\ run.p[i].pc = "opened"
    /\ check_name(id[1], id[2], id[3]) = "none"
    /\ LET path == package_path(id[1], id[2], id[3]) IN
         IF ~isdir(Disk, path)
         THEN Step(i, [run.p[i] EXCEPT !.pc = "prune_mark", !.remove_objs = {},
                                      !.scanned = {}, !.swept = {}],
                   Disk)
         ELSE IF \E h \in DOMAIN Disk.pkgs[path].contents :
                    ~_load_contents(Disk.pkgs[path], h).ok
         THEN Step(i, [run.p[i] EXCEPT !.pc = "raised"], Disk)
         ELSE Step(i, [run.p[i] EXCEPT !.pc = "rm_tree", !.id = id,
                                      !.remove_objs = CollectObjs(Disk.pkgs[path])],
                   Disk)

\* Lines 224-226: rmtree(path), then prune(remove_objs) starts.
RemoveTree(i) ==
    /\ run.p[i].pc = "rm_tree"
    /\ Step(i, [run.p[i] EXCEPT !.pc = "prune_mark", !.scanned = {}, !.swept = {}],
            rmtree(Disk, package_path(run.p[i].id[1], run.p[i].id[2], run.p[i].id[3])))

\* The builder takes a contents tree: its objects are to be published
\* before the package is installed.
BuildStart(i, id, cid) ==
    /\ run.p[i].pc = "opened"
    /\ check_name(id[1], id[2], id[3]) = "none"
    /\ Step(i, [run.p[i] EXCEPT !.pc = "publishing", !.id = id, !.cid = cid,
                                !.topublish = find_object_hashes(Contents(cid))],
            Disk)

\* One staged object is moved to object_path.
BuildPublish(i) ==
    /\ run.p[i].pc = "publishing"
    /\ \E h \in run.p[i].topublish :
          /\ SubSeq(h, 1, 2) \in Disk.objdir
          /\ Step(i, [run.p[i] EXCEPT !.topublish = run.p[i].topublish \ {h}],
                  publish_object(Disk, h))

\* install_package, lines 178-181.
InstallCreateDirs(i) ==
    /\ run.p[i].pc = "publishing"
    /\ run.p[i].topublish = {}
    /\ Step(i, [run.p[i] EXCEPT !.pc = "inst_remove"], create_dirs(Disk))

\* Lines 183-189.
InstallRemove(i) ==
    /\ run.p[i].pc = "inst_remove"
    /\ Step(i, [run.p[i] EXCEPT !.pc = "inst_write"],
            os_remove(Disk, package_path(run.p[i].id[1], run.p[i].id[2], run.p[i].id[3])))

\* Lines 191-197.
InstallWrite(i) ==
    /\ run.p[i].pc = "inst_write"
    /\ Step(i, [run.p[i] EXCEPT !.pc = "installed"],
            PackageCreate(Disk, package_path(run.p[i].id[1], run.p[i].id[2], run.p[i].id[3]),
                          Contents(run.p[i].cid)))

\* A store with its directories and nothing in it.
FreshStore == create_dirs([EmptyStore EXCEPT !.exists = TRUE])

ConcStores == {FreshStore, Current(VERSION, "shared")}

ValidIds == {id \in IdArgs : check_name(id[1], id[2], id[3]) = "none"}

InitConc ==
    /\ \E s \in ConcStores, mode \in {"serial", "interleaved"} :
          /\ stores = [r \in Roots |-> IF r = PrimaryRoot THEN s ELSE EmptyStore]
          /\ run = [RunState(mode, s) EXCEPT
                       !.p = [i \in ProcIds |-> [LocalIdle EXCEPT !.pc = "opened"]]]
    /\ opened = {PrimaryRoot}
    /\ extraDirs = << >>
    /\ last = Call("start", NONE, NoId, {}, NoContents, "none", {}, FALSE, Contents(0))

NextConc ==
    \/ \E objs \in SUBSET Objs : Allowed(Pruner) /\ PruneStart(Pruner, objs)
    \/ \E id \in ValidIds : Allowed(Pruner) /\ RemoveCollect(Pruner, id)
    \/ Allowed(Pruner) /\ RemoveTree(Pruner)
    \/ Allowed(Pruner) /\ PruneMark(Pruner)
    \/ Allowed(Pruner) /\ PruneMarkEnd(Pruner)
    \/ Allowed(Pruner) /\ PruneSweep(Pruner)
    \/ Allowed(Pruner) /\ PruneReturn(Pruner)
    \/ \E id \in ValidIds, cid \in InstallIds : Allowed(Builder) /\ BuildStart(Builder, id, cid)
    \/ Allowed(Builder) /\ BuildPublish(Builder)
    \/ Allowed(Builder) /\ InstallCreateDirs(Builder)
    \/ Allowed(Builder) /\ InstallRemove(Builder)
    \/ Allowed(Builder) /\ InstallWrite(Builder)

SpecConc == InitConc /\ [][NextConc]_vars

(***************************************************************************)
(* Vocabulary of the properties.                                           *)
(***************************************************************************)
\* The hashes a manifest file references: every file leaf of its tree.
ManifestRefs(m) ==
    IF m.parses THEN Contents(m.text).files \cup UNION Contents(m.text).groups ELSE {}

\* The hashes referenced by an instance file of one package directory.
PkgRefs(pk) == UNION {ManifestRefs(pk.contents[h]) : h \in DOMAIN pk.contents}

\* The package directories at pkgs/<team>/<user>/<package>.
PkgDirs(s) == {q \in DOMAIN s.pkgs : Len(q) = 3 /\ s.pkgs[q].kind = "dir"}

\* The hashes referenced by an instance present under
\* pkgs/<team>/<user>/<package>/contents.
InstanceRefs(s) == UNION {PkgRefs(s.pkgs[q]) : q \in PkgDirs(s)}

\* The hashes referenced by the instances iterpackages enumerates.
EnumeratedRefs(s) == UNION {ManifestRefs(s.pkgs[i[1]].contents[i[2]]) : i \in iterpackages(s)}

\* Every manifest in the store parses.
AllParse(s) ==
    \A q \in PkgDirs(s) : \A h \in DOMAIN s.pkgs[q].contents : s.pkgs[q].contents[h].parses

(***************************************************************************)
(* C1  Prune safety: whatever candidate set prune is called with, the set  *)
(* it returns contains no hash referenced by an instance that iterpackages *)
(* enumerates at the time of the call, and the call deletes the object     *)
(* file of no such hash.  The same holds of the prune that remove_package  *)
(* runs once the package directory is gone: the instances enumerated then  *)
(* are those of the state it leaves.                                       *)
(***************************************************************************)
C1_PruneSafety ==
    [][/\ last'.op = "prune" =>
            LET r == last'.root
                live == EnumeratedRefs(stores[r])
            IN /\ last'.removed \cap live = {}
               /\ \A h \in live :
                     object_path(h) \in stores[r].objs => object_path(h) \in stores'[r].objs
       /\ last'.op = "remove_package" =>
            LET r == last'.root
                live == EnumeratedRefs(stores'[r])
            IN /\ last'.removed \cap live = {}
               /\ \A h \in live :
                     object_path(h) \in stores[r].objs => object_path(h) \in stores'[r].objs]_vars

\* prune has returned after a call whose candidates included referenced
\* objects and unreferenced ones: it removed some and spared the referenced.
C1_Witness ==
    /\ last.op = "prune" /\ last.exc = "none"
    /\ last.cand \cap EnumeratedRefs(stores[last.root]) # {}
    /\ last.removed # {}
    /\ EnumeratedRefs(stores[last.root]) \subseteq ObjectsOnDisk(stores[last.root])

(***************************************************************************)
(* C2  No live object is ever deleted: no step of the process (open,       *)
(* create_dirs, install_package, remove_package, prune, find_package,      *)
(* publishing an object) removes from the object directory a hash that an  *)
(* instance present after the step references, and only prune, alone or    *)
(* inside remove_package, removes an object file at all.                   *)
(***************************************************************************)
C2_NoLiveObjectDeleted ==
    [][\A r \in Roots :
          (stores'[r].objs # stores[r].objs \/ stores'[r].objdir # stores[r].objdir) =>
             /\ \A h \in StoredHashes(stores[r]) \cap InstanceRefs(stores'[r]) :
                   h \in StoredHashes(stores'[r])
             /\ ~(StoredHashes(stores[r]) \subseteq StoredHashes(stores'[r]))
                   => last'.op \in {"prune", "remove_package"}]_vars

\* remove_package has deleted objects from a store that still holds a
\* package whose referenced objects are all on disk.
C2_Witness ==
    /\ last.op = "remove_package" /\ last.exc = "none"
    /\ last.removed # {}
    /\ InstanceRefs(stores[last.root]) # {}
    /\ InstanceRefs(stores[last.root]) \subseteq ObjectsOnDisk(stores[last.root])

(***************************************************************************)
(* C3  Prune completeness: when prune is called with all the object hashes *)
(* present in the object store and returns, every object that no instance  *)
(* references is in the returned set and its file is gone, so every object *)
(* left on disk is referenced.                                             *)
(***************************************************************************)
C3_PruneCompleteness ==
    [][(/\ last'.op = "prune" /\ last'.exc = "none"
        /\ last'.cand = ObjectsOnDisk(stores[last'.root])) =>
          LET r == last'.root IN
             /\ \A h \in ObjectsOnDisk(stores[r]) \ InstanceRefs(stores[r]) :
                   h \in last'.removed /\ object_path(h) \notin stores'[r].objs
             /\ ObjectsOnDisk(stores'[r]) \subseteq InstanceRefs(stores'[r])]_vars

\* A full-store prune has returned, having removed an unreferenced object
\* and left a referenced one.
C3_Witness ==
    /\ last.op = "prune" /\ last.exc = "none"
    /\ last.removed # {}
    /\ ObjectsOnDisk(stores[last.root]) # {}
    /\ last.cand = last.removed \cup ObjectsOnDisk(stores[last.root])
    /\ last.removed \cap InstanceRefs(stores[last.root]) = {}

(***************************************************************************)
(* C4  remove_package on an existing package, when it returns (no manifest *)
(* it or prune loads fails to parse): the package directory is gone with   *)
(* all its instances and tags, every object referenced by one of its       *)
(* instances and by no instance of another package is deleted, and every   *)
(* object also referenced by an instance of another package stays.         *)
(***************************************************************************)
RemoveEffect(r, path) ==
    LET mine == PkgRefs(stores[r].pkgs[path])
        others == UNION {PkgRefs(stores[r].pkgs[q]) : q \in PkgDirs(stores[r]) \ {path}}
    IN /\ path \notin DOMAIN stores'[r].pkgs
       /\ \A h \in mine \ others : object_path(h) \notin stores'[r].objs
       /\ \A h \in mine \cap others :
             object_path(h) \in stores[r].objs => object_path(h) \in stores'[r].objs

\* The step is a remove_package, with valid names, of an existing package.
RemovesExisting ==
    /\ last'.op = "remove_package"
    /\ ~(\/ last'.team # NONE /\ last'.team \in InvalidNames
         \/ last'.user \in InvalidNames
         \/ last'.package \in InvalidNames)
    /\ isdir(stores[last'.root], package_path(last'.team, last'.user, last'.package))

\* C4, as amended: the effect follows every remove_package of an existing
\* package that returns.
C4_RemovePackage ==
    [][(RemovesExisting /\ last'.exc = "none") =>
          RemoveEffect(last'.root, package_path(last'.team, last'.user, last'.package))]_vars

\* C4 as claimed: the effect follows every remove_package of an existing
\* package.
C4_Original ==
    [][RemovesExisting =>
          RemoveEffect(last'.root, package_path(last'.team, last'.user, last'.package))]_vars

\* remove_package has returned having deleted an object only its package
\* referenced and spared, on disk, one that another package references too.
C4_Witness ==
    /\ last.op = "remove_package" /\ last.exc = "none"
    /\ last.removed # {}
    /\ last.cand \ last.removed # {}
    /\ (last.cand \ last.removed) \subseteq ObjectsOnDisk(stores[last.root])
    /\ package_path(last.team, last.user, last.package) \notin DOMAIN stores[last.root].pkgs

(***************************************************************************)
(* C5  Opening a store of format 1.2 runs both migrations in that one      *)
(* open: afterwards .format holds 1.4, every directory that was directly   *)
(* under pkgs/ is under pkgs/<default team>/ with the same name and        *)
(* contents, and no package is lost or duplicated; for every set of        *)
(* top-level owner directories.                                            *)
(***************************************************************************)
C5_Open12Migrates ==
    [][\A r \in Roots :
          (last'.op = "open" /\ last'.root = r /\ stores[r].format = "1.2") =>
             /\ stores'[r].format = VERSION
             /\ stores'[r].top = {DEFAULT_TEAM}
             /\ \A p \in DOMAIN stores[r].pkgs :
                   /\ (<<DEFAULT_TEAM>> \o p) \in DOMAIN stores'[r].pkgs
                   /\ stores'[r].pkgs[<<DEFAULT_TEAM>> \o p] = stores[r].pkgs[p]
             /\ Cardinality(DOMAIN stores'[r].pkgs) = Cardinality(DOMAIN stores[r].pkgs)]_vars

(***************************************************************************)
(* C6  Opening a store of format 1.3 creates the 256 shard directories     *)
(* 00..ff under objs/, renames every entry directly under objs/ whose name *)
(* is 64 characters long to objs/<first 2 chars>/<remaining chars>, leaves *)
(* every other entry in place and persists 1.4; the set of stored object   *)
(* hashes is the same before and after.                                    *)
(***************************************************************************)
HexDigits == 0..15

C6_Open13Shards ==
    [][\A r \in Roots :
          (last'.op = "open" /\ last'.root = r /\ stores[r].format = "1.3") =>
             /\ \A a \in HexDigits, b \in HexDigits : <<a, b>> \in stores'[r].objdir
             /\ \A e \in stores[r].objdir :
                   IF Len(e) = 64
                   THEN /\ e \notin stores'[r].objdir
                        /\ <<<<e[1], e[2]>>, [k \in 1..62 |-> e[k + 2]]>> \in stores'[r].objs
                   ELSE e \in stores'[r].objdir
             /\ stores[r].objs \subseteq stores'[r].objs
             /\ stores'[r].format = "1.4"
             /\ StoredHashes(stores'[r]) = StoredHashes(stores[r])
             /\ Cardinality(stores'[r].objs)
                   = Cardinality(stores[r].objs
                                 \cup {e \in stores[r].objdir : Len(e) = 64})]_vars

\* A store of format 1.3 has just been opened: its objects are sharded,
\* objs/tmp is where it was, and create_dirs has not run since.
C6_Witness ==
    /\ last.op = "open" /\ last.exc = "none"
    /\ stores[last.root].format = VERSION
    /\ stores[last.root].dirs = {OBJ_DIR, PKG_DIR}
    /\ LegacyTmpEntry \in stores[last.root].objdir
    /\ ObjectsOnDisk(stores[last.root]) = Objs
    /\ ShardNames \subseteq stores[last.root].objdir

(***************************************************************************)
(* C7  Migration monotonicity: opening a store that has been opened        *)
(* successfully before, by the constructor or inside find_package, changes *)
(* nothing on disk, and every successful open leaves .format absent or     *)
(* equal to 1.4.                                                           *)
(***************************************************************************)
C7_ReopenNoOp ==
    [][/\ \A r \in Roots :
             (last'.op = "open" /\ last'.root = r) =>
                /\ r \in opened => stores'[r] = stores[r]
                /\ last'.exc = "none" => stores'[r].format \in {NONE, VERSION}
       /\ last'.op = "find_package" => \A r \in opened : stores'[r] = stores[r]]_vars

\* A migrated store, on which create_dirs has run since, has been opened
\* again.
C7_Witness ==
    /\ last.op = "open" /\ last.exc = "none"
    /\ last.root \in opened
    /\ LegacyTmpEntry \in stores[last.root].objdir
    /\ CACHE_DIR \in stores[last.root].dirs
    /\ stores[last.root].format = VERSION

(***************************************************************************)
(* C8  Opening a store whose .format holds a string other than 1.2, 1.3 or *)
(* 1.4 fails with a StoreException and leaves the store untouched.         *)
(***************************************************************************)
C8_IncompatibleUntouched ==
    [][\A r \in Roots :
          (last'.op = "open" /\ last'.root = r
           /\ stores[r].format \notin {NONE, "1.2", "1.3", "1.4"}) =>
             /\ last'.exc = "StoreException"
             /\ stores' = stores
             /\ opened' = opened]_vars

\* An open has failed on a store of an incompatible format.
C8_Witness ==
    /\ last.op = "open" /\ last.exc = "StoreException"
    /\ stores[last.root].format \in IncompatibleFormats
    /\ stores[last.root].pkgs # EmptyFn
    /\ last.root \notin opened

(***************************************************************************)
(* C9  get_package, install_package, remove_package and find_package       *)
(* called with a team, user or package name that fails the validator raise *)
(* the naming error and leave every store exactly as it was.               *)
(***************************************************************************)
NameFails(team, user, package) ==
    \/ team # NONE /\ team \in InvalidNames
    \/ user \in InvalidNames
    \/ package \in InvalidNames

C9_InvalidNameNoMutation ==
    [][(/\ last'.op \in {"get_package", "install_package", "remove_package", "find_package"}
        /\ NameFails(last'.team, last'.user, last'.package))
       => /\ last'.exc = "StoreException"
          /\ stores' = stores]_vars

\* install_package has raised the naming error on a store whose
\* directories do not exist yet.
C9_Witness ==
    /\ last.op = "install_package" /\ last.exc = "StoreException"
    /\ NameFails(last.team, last.user, last.package)
    /\ last.cid # NoContents
    /\ ~stores[last.root].exists
    /\ stores[last.root].dirs = {}

(***************************************************************************)
(* C10  install_package with valid names and non-null contents, followed   *)
(* immediately by get_package with the same identity: get_package returns  *)
(* a package, and its contents are the contents installed.                 *)
(***************************************************************************)
C10_InstallThenGet ==
    [][(/\ last.op = "install_package" /\ last.exc = "none"
        /\ last'.op = "get_package"
        /\ last'.root = last.root
        /\ <<last'.team, last'.user, last'.package>> = <<last.team, last.user, last.package>>)
       => /\ last'.exc = "none"
          /\ last'.found
          /\ last'.contents = Contents(last.cid)]_vars

\* get_package has returned right after an install over a package
\* directory that already held another instance.
C10_Witness ==
    /\ last.op = "get_package" /\ last.follows
    /\ last.found
    /\ LET path == package_path(last.team, last.user, last.package) IN
         /\ isdir(stores[last.root], path)
         /\ Cardinality(DOMAIN stores[last.root].pkgs[path].contents) > 1
         /\ Contents(stores[last.root].pkgs[path].contents[
                        stores[last.root].pkgs[path].tags[LATEST]].text) = last.contents

(***************************************************************************)
(* C11  install_package over an existing package: when a package directory *)
(* with instances and tags exists at (team, user, package), after          *)
(* install_package returns none of its earlier instances or tags remain    *)
(* and the package holds only the newly written contents, as its first     *)
(* instance, with the latest tag naming it.                                *)
(***************************************************************************)
C11_InstallReplaces ==
    [][(/\ last'.op = "install_package" /\ last'.exc = "none"
        /\ isdir(stores[last'.root], package_path(last'.team, last'.user, last'.package)))
       => LET pk == stores'[last'.root].pkgs[package_path(last'.team, last'.user,
                                                           last'.package)]
              h == HashContents(Contents(last'.cid))
          IN /\ DOMAIN pk.contents = {h}
             /\ pk.contents[h] = ManifestFile(Contents(last'.cid))
             /\ DOMAIN pk.tags = {LATEST}
             /\ pk.tags[LATEST] = h]_vars

(***************************************************************************)
(* C12  ls_packages returns, for every package of the store, exactly one   *)
(* row (name, "", h) for each instance h that no tag points at and exactly *)
(* one row (name, t, content of t) for each tag t, and nothing else; name  *)
(* is user/package under the default team and team:user/package under any  *)
(* other team.  This for every tag file, whatever hash its content names.  *)
(***************************************************************************)
DisplayName(q) ==
    IF q[1] = DEFAULT_TEAM THEN <<q[2], "/", q[3]>> ELSE <<q[1], ":", q[2], "/", q[3]>>

\* The rows the claim lists for the package directory q of store s.
ClaimedRows(s, q) ==
    {<<DisplayName(q), "", h>> :
        h \in {i \in DOMAIN s.pkgs[q].contents :
                  \A t \in DOMAIN s.pkgs[q].tags : s.pkgs[q].tags[t] # i}}
    \cup {<<DisplayName(q), t, s.pkgs[q].tags[t]>> : t \in DOMAIN s.pkgs[q].tags}

\* C12: the list returned holds the claimed rows of every package, each
\* once, and nothing else.
C12_LsPackagesRows ==
    [][last'.op = "ls_packages" =>
          LET s == stores[last'.root]
              claimed == UNION {ClaimedRows(s, q) : q \in PkgDirs(s)}
          IN /\ last'.exc = "none"
             /\ DOMAIN last'.rows = claimed
             /\ \A w \in claimed : last'.rows[w] = 1]_vars

(***************************************************************************)
(* C13  With valid names get_package never raises: it returns None when    *)
(* the package directory is absent or the manifest its latest tag names    *)
(* fails to load, and a handle on that manifest otherwise; in every case   *)
(* the stores on disk are left as they were.                               *)
(***************************************************************************)
\* The manifest file the latest tag of package directory pk names loads.
LatestLoads(pk) ==
    /\ LATEST \in DOMAIN pk.tags
    /\ pk.tags[LATEST] \in DOMAIN pk.contents
    /\ pk.contents[pk.tags[LATEST]].parses

\* C13: get_package returns, None or the handle, and writes nothing.
C13_GetNeverRaises ==
    [][(/\ last'.op = "get_package"
        /\ ~NameFails(last'.team, last'.user, last'.package)) =>
          LET s == stores[last'.root]
              path == <<IF last'.team = NONE THEN DEFAULT_TEAM ELSE last'.team,
                        last'.user, last'.package>>
              present == path \in DOMAIN s.pkgs /\ s.pkgs[path].kind = "dir"
          IN /\ last'.exc = "none"
             /\ stores' = stores
             /\ last'.found <=> (present /\ LatestLoads(s.pkgs[path]))
             /\ last'.found =>
                   last'.contents = Contents(s.pkgs[path].contents[s.pkgs[path].tags[LATEST]].text)]_vars

\* get_package has returned None for a package directory that is present
\* and whose manifest does not parse.
C13_Witness ==
    /\ last.op = "get_package" /\ last.exc = "none" /\ ~last.found
    /\ ~NameFails(last.team, last.user, last.package)
    /\ LET path == package_path(last.team, last.user, last.package) IN
         /\ isdir(stores[last.root], path)
         /\ ~LatestLoads(stores[last.root].pkgs[path])

(***************************************************************************)
(* C14  What remove_package and prune return.  As amended: when the call   *)
(* returns, no hash of the returned set has an object file at              *)
(* object_path(hash) afterwards, every object file the call deleted is in  *)
(* the returned set, and the returned hashes that had a file before the    *)
(* call are exactly the deleted ones; a call that raises deletes no object *)
(* file.                                                                   *)
(***************************************************************************)
\* The step is a prune or a remove_package that got as far as prune.
SweepStep ==
    /\ last'.op \in {"prune", "remove_package"}
    /\ ~NameFails(last'.team, last'.user, last'.package)

\* C14, as amended: the returned hashes have no file afterwards and the
\* deleted files are those of returned hashes.
C14_ReturnsSwept ==
    [][SweepStep =>
          LET before == stores[last'.root].objs
              after == stores'[last'.root].objs
          IN /\ after \subseteq before
             /\ last'.exc = "none" =>
                   /\ \A h \in last'.removed : object_path(h) \notin after
                   /\ (before \ after) \subseteq {object_path(h) : h \in last'.removed}
                   /\ {h \in last'.removed : object_path(h) \in before}
                         = {h \in Objs : object_path(h) \in before \ after}
             /\ last'.exc # "none" => after = before]_vars

\* C14 as claimed: moreover every returned hash had an object file before
\* the call.
C14_Original ==
    [][(SweepStep /\ last'.exc = "none") =>
          LET before == stores[last'.root].objs
              after == stores'[last'.root].objs
          IN /\ \A h \in last'.removed :
                   object_path(h) \in before /\ object_path(h) \notin after
             /\ (before \ after) \subseteq {object_path(h) : h \in last'.removed}]_vars

\* remove_package has returned a set holding a hash whose file it deleted
\* and a hash that had no file.
C14_Witness ==
    /\ last.op = "remove_package" /\ last.exc = "none"
    /\ last.deleted # {}
    /\ last.removed \ last.deleted # {}
    /\ last.deleted \subseteq last.removed

(***************************************************************************)
(* C15  find_package consults the roots in a fixed order, the primary      *)
(* store first and then the extra roots in list order.  It returns the     *)
(* package of the first root, in that order, whose store holds it with a   *)
(* manifest that loads, and no root after that one is opened; it returns   *)
(* None only when no root holds it; when it raises instead, a root failed  *)
(* to open and no root before that one holds the package.                  *)
(***************************************************************************)
\* The order the claim gives.
ClaimedOrder == <<PrimaryRoot>> \o extraDirs

\* Store s holds the package with a manifest that loads.
Holds(s, team, user, package) ==
    LET path == <<IF team = NONE THEN DEFAULT_TEAM ELSE team, user, package>> IN
       /\ path \in DOMAIN s.pkgs
       /\ s.pkgs[path].kind = "dir"
       /\ LatestLoads(s.pkgs[path])

\* Index i is the first of the order whose root holds the package once the
\* roots consulted have been opened; every root after it is as it was.
FirstHolder(i) ==
    /\ Holds(stores'[ClaimedOrder[i]], last'.team, last'.user, last'.package)
    /\ \A j \in 1..(i - 1) :
          ~Holds(stores'[ClaimedOrder[j]], last'.team, last'.user, last'.package)
    /\ \A j \in (i + 1)..Len(ClaimedOrder) :
          (\A k \in 1..i : ClaimedOrder[k] # ClaimedOrder[j]) =>
             stores'[ClaimedOrder[j]] = stores[ClaimedOrder[j]]

\* C15: the result is that of the first holder in the order, None means no
\* holder, an exception means no holder before the root that failed.
C15_FindOrder ==
    [][(/\ last'.op = "find_package"
        /\ ~NameFails(last'.team, last'.user, last'.package)) =>
          /\ last'.found =>
                \E i \in 1..Len(ClaimedOrder) :
                   /\ FirstHolder(i)
                   /\ last'.root = ClaimedOrder[i]
                   /\ LET pk == stores'[ClaimedOrder[i]].pkgs[
                                   <<IF last'.team = NONE THEN DEFAULT_TEAM ELSE last'.team,
                                     last'.user, last'.package>>]
                      IN last'.contents = Contents(pk.contents[pk.tags[LATEST]].text)
          /\ (last'.exc = "none" /\ ~last'.found) =>
                \A i \in 1..Len(ClaimedOrder) :
                   ~Holds(stores'[ClaimedOrder[i]], last'.team, last'.user, last'.package)
          /\ last'.exc # "none" =>
                /\ ~last'.found
                /\ \E i \in 1..Len(ClaimedOrder) :
                      /\ stores'[ClaimedOrder[i]].format \notin {NONE, VERSION}
                      /\ \A j \in 1..(i - 1) :
                            ~Holds(stores'[ClaimedOrder[j]],
                                   last'.team, last'.user, last'.package)]_vars

\* find_package has returned the package of the second root of the list
\* "extra2:extra", the primary store not holding it, while the root listed
\* last holds the package too, with other contents, and was not opened.
C15_Witness ==
    /\ last.op = "find_package" /\ last.found
    /\ extraDirs = <<ExtraRoot2, ExtraRoot>>
    /\ last.root = ExtraRoot2
    /\ ~Holds(stores[PrimaryRoot], last.team, last.user, last.package)
    /\ stores[ExtraRoot] = Legacy13(Objs, {})
    /\ Holds(stores[ExtraRoot], last.team, last.user, last.package)
    /\ last.contents = Contents(2)

(***************************************************************************)
(* C16  create_dirs: after a call the root, objs, tmp, pkgs and cache and  *)
(* the 256 shard directories exist; packages, objects and the other        *)
(* entries of objs/ are as before; .format holds the current version when  *)
(* it was absent and is untouched otherwise; a call on a store that has    *)
(* all of these, such as a second call, changes nothing.                   *)
(***************************************************************************)
\* The names 00 .. ff.
HexPairs == {<<a, b>> : a \in HexDigits, b \in HexDigits}

\* C16: create_dirs only adds what is missing, and nothing when nothing is.
C16_CreateDirsIdempotent ==
    [][last'.op = "create_dirs" =>
          LET s == stores[last'.root]
              t == stores'[last'.root]
          IN /\ last'.exc = "none"
             /\ t.exists
             /\ {"objs", "tmp", "pkgs", "cache"} \subseteq t.dirs
             /\ HexPairs \subseteq t.objdir
             /\ s.dirs \subseteq t.dirs /\ s.objdir \subseteq t.objdir
             /\ t.objdir \ s.objdir \subseteq HexPairs
             /\ t.pkgs = s.pkgs /\ t.top = s.top /\ t.objs = s.objs
             /\ t.format = IF s.format = NONE THEN "1.4" ELSE s.format
             /\ \A r \in Roots \ {last'.root} : stores'[r] = stores[r]
             /\ (last.op = "create_dirs" /\ last.root = last'.root) => t = s
             /\ (/\ s.exists /\ s.format # NONE
                 /\ {"objs", "tmp", "pkgs", "cache"} \subseteq s.dirs
                 /\ HexPairs \subseteq s.objdir) => t = s]_vars

\* create_dirs has run on a migrated store that holds a package, objects
\* and objs/tmp.
C16_Witness ==
    /\ last.op = "create_dirs"
    /\ LegacyTmpEntry \in stores[last.root].objdir
    /\ stores[last.root].pkgs # EmptyFn
    /\ ObjectsOnDisk(stores[last.root]) = Objs
    /\ {TMP_OBJ_DIR, CACHE_DIR} \subseteq stores[last.root].dirs

(***************************************************************************)
(* C17  Migration is recoverable after a crash: when a process was stopped *)
(* inside the 1.2-to-1.3 or the 1.3-to-1.4 migration after a step that     *)
(* changed the disk, every later open succeeds and completes the           *)
(* migration: .format holds 1.4, every original package is under the       *)
(* default team and every original object is at its sharded path.          *)
(***************************************************************************)
\* The store on disk holds everything the original store held, migrated.
Migrated(orig, s) ==
    /\ s.format = "1.4"
    /\ \A q \in DOMAIN orig.pkgs :
          LET path == IF orig.format = "1.2" THEN <<DEFAULT_TEAM>> \o q ELSE q IN
             /\ path[1] = DEFAULT_TEAM
             /\ path \in DOMAIN s.pkgs
             /\ s.pkgs[path] = orig.pkgs[q]
    /\ Cardinality(DOMAIN s.pkgs) = Cardinality(DOMAIN orig.pkgs)
    /\ \A h \in StoredHashes(orig) \ run.deleted :
          <<SubSeq(h, 1, 2), SubSeq(h, 3, 64)>> \in s.objs

\* C17: after a stop inside a migration, an open that ends has succeeded
\* and the store is migrated.
C17_CrashRecovery ==
    (/\ run.midcrash
     /\ run.orig.format \in {"1.2", "1.3"}
     /\ run.p[1].pc \in {"opened", "failed"})
       => /\ run.p[1].pc = "opened"
          /\ Migrated(run.orig, Disk)

(***************************************************************************)
(* C18  In prune the sweep starts only after the mark phase is over: no    *)
(* step taken during the scan deletes an object file, when the sweep       *)
(* starts the candidate set holds no hash a live instance references, and  *)
(* so, wherever prune stops (a manifest fails to load during the scan, the *)
(* process is stopped during the sweep), every object deleted so far is    *)
(* referenced by no live instance.                                         *)
(***************************************************************************)
C18_SweepAfterMark ==
    [][/\ run.p[1].pc = "prune_mark" => stores'[PrimaryRoot].objs = stores[PrimaryRoot].objs
       /\ run'.p[1].pc = "prune_sweep" =>
             run'.p[1].remove_objs \cap InstanceRefs(stores'[PrimaryRoot]) = {}
       /\ run'.p[1].pc = "raised" => stores'[PrimaryRoot].objs = stores[PrimaryRoot].objs
       /\ run'.deleted \cap InstanceRefs(stores'[PrimaryRoot]) = {}
       /\ \A h \in ObjectsOnDisk(stores[PrimaryRoot]) \ ObjectsOnDisk(stores'[PrimaryRoot]) :
             h \in run'.deleted]_vars

\* The process was stopped during the sweep, after it had deleted an
\* object; the store holds a live instance and the objects it references.
C18_Witness ==
    /\ run.crashpc = "prune_sweep"
    /\ run.deleted # {}
    /\ InstanceRefs(Disk) # {}
    /\ InstanceRefs(Disk) \subseteq ObjectsOnDisk(Disk)
    /\ run.deleted \cap ObjectsOnDisk(Disk) = {}

(***************************************************************************)
(* C19  remove_package of a package one of whose instances has a manifest  *)
(* that fails to load raises that failure and leaves the store as it was:  *)
(* the package directory with all its instances and tags is still there    *)
(* and no object has been deleted.                                         *)
(***************************************************************************)
\* Some instance file of package directory pk does not parse.
SomeInstanceFails(pk) == \E h \in DOMAIN pk.contents : ~pk.contents[h].parses

\* C19: the call raises PackageException and the store is unchanged.
C19_RemoveFailsClean ==
    [][(/\ RemovesExisting
        /\ SomeInstanceFails(stores[last'.root].pkgs[
              package_path(last'.team, last'.user, last'.package)])) =>
          /\ last'.exc = "PackageException"
          /\ last'.removed = {}
          /\ stores' = stores]_vars

\* remove_package has raised on a package that holds an instance that loads
\* next to the one that does not, in a store with objects on disk.
C19_Witness ==
    /\ last.op = "remove_package" /\ last.exc = "PackageException"
    /\ LET path == package_path(last.team, last.user, last.package) IN
         /\ isdir(stores[last.root], path)
         /\ SomeInstanceFails(stores[last.root].pkgs[path])
         /\ \E h \in DOMAIN stores[last.root].pkgs[path].contents :
               stores[last.root].pkgs[path].contents[h].parses
         /\ PkgRefs(stores[last.root].pkgs[path]) \cap ObjectsOnDisk(stores[last.root]) # {}

(***************************************************************************)
(* C20  Without a lock reference safety rests on single-writer use.  When  *)
(* the callers serialize prune or remove_package of one process with the   *)
(* publication and installation of another, no live instance ever          *)
(* references an object that prune has deleted and that is missing from    *)
(* the object store; when the steps interleave, such a state is reached.   *)
(***************************************************************************)
\* A live instance references an object that prune has deleted.
DanglingReference ==
    \E h \in InstanceRefs(Disk) :
       /\ h \in run.deleted
       /\ <<SubSeq(h, 1, 2), SubSeq(h, 3, 64)>> \notin Disk.objs

\* C20: serialized, no dangling reference to a pruned object is reachable.
C20_SerialSafe == run.mode = "serial" => ~DanglingReference

\* Interleaved, the sweep has deleted an object the builder had published
\* and the package installed meanwhile references.
C20_Witness ==
    /\ run.mode = "interleaved"
    /\ DanglingReference
    /\ run.p[Builder].pc = "installed"
    /\ run.p[Pruner].pc = "pruned"
    /\ find_object_hashes(Contents(run.p[Builder].cid)) \cap run.p[Pruner].remove_objs # {}

====
